---- MODULE Spec2Model ----
(***************************************************************************)
(* A model of scripts/clone_project.py: the cloning of one master dbt      *)
(* project into tenant-scoped copies.                                      *)
(*                                                                         *)
(* Text is a sequence of tokens.  A token is a string of characters; the   *)
(* tokens are chosen so that every literal piece of the three regular      *)
(* expressions of ModelParser ("ref(", "config(", a quote, ")") is one     *)
(* token and no token holds a newline besides "\n" itself, so matching     *)
(* token by token is matching character by character on these texts.       *)
(***************************************************************************)
EXTENDS Integers, Sequences, FiniteSets, TLC

VARIABLES
    text,       \* ModelParser: what self.file.read_text() returns
    sql,        \* ModelParser.file_contents: the local variable sql
    pc,         \* ModelParser.file_contents: the position in the property
    customer,   \* self.customer
    stem,       \* self.file.stem
    runs,       \* the number of completed applications of file_contents
    cfgIn,      \* history: the argument of the last _modify_config
    refsIn,     \* history: the argument of the last _modify_refs
    first,      \* history: the result of the first application
    matched,    \* history: the spans the reference patterns matched last
    yml,        \* SchemaParser: the document yaml.safe_load reads from the file
    data,       \* SchemaParser.file_contents: the local variable data
    tenant_directory,   \* __main__: the environment directory being cloned
    master,     \* the files under dbt_packages/master_project of it
    tree,       \* the files written under tenant_directory: path -> contents
    ci,         \* __main__: the index of the customer in the environment
    di,         \* __main__: the index of the directory in DIRECTORIES
    directory,  \* ParseDirectory.directory
    todo,       \* ParseDirectory.run: the files of self.files not yet visited
    log         \* history: what ParseDirectory.run did with each file

sourceVars == <<text, sql, stem, runs, cfgIn, refsIn, first, matched>>
schemaVars == <<yml, data>>
cloneVars == <<tenant_directory, master, tree, ci, di, directory, todo, log>>
vars == <<pc, customer, sourceVars, schemaVars, cloneVars>>

----------------------------------------------------------------------------
(* Bounds *)

\* The longest source text, in tokens.
MaxLen == 5

\* The number of times file_contents is applied in a row.
MaxRuns == 2

\* The most items one list of a schema document holds.
MaxItems == 2

\* The most files the master project holds.
MaxFiles == 2

----------------------------------------------------------------------------
(* Sequences *)

\* s[b+1..e], the tokens between the positions b and e (0 <= b <= e <= Len(s)).
Slice(s, b, e) == [k \in 1..(e - b) |-> s[b + k]]

\* pat occurs in s right after position p.
OccursAt(pat, s, p) ==
    /\ p >= 0
    /\ p + Len(pat) <= Len(s)
    /\ \A k \in 1..Len(pat) : s[p + k] = pat[k]

\* pat occurs somewhere in s: re.findall(pat, s) is not empty, for a pattern
\* without metacharacters.
Occurs(pat, s) == \E p \in 0..Len(s) : OccursAt(pat, s, p)

Min(S) == CHOOSE x \in S : \A y \in S : x <= y

\* All sequences over S of length at most n.
SeqsUpTo(S, n) == UNION {[1..k -> S] : k \in 0..n}

----------------------------------------------------------------------------
(* The patterns of ModelParser: (?<=behind) body*? (?=ahead), where the    *)
(* body is "." (any character but a newline) or [\s\S] (any character).    *)

REF_SINGLE_QUOTE == [behind |-> <<"ref(", "'">>, dotall |-> FALSE, ahead |-> <<"'", ")">>]
REF_DOUBLE_QUOTE == [behind |-> <<"ref(", "\"">>, dotall |-> FALSE, ahead |-> <<"\"", ")">>]
CONFIG_SEARCH == [behind |-> <<"config(">>, dotall |-> TRUE, ahead |-> <<")">>]

\* The ends of the matches of pat that begin at position b and are at least
\* minLen long.
MatchEnds(pat, s, b, minLen) ==
    IF ~OccursAt(pat.behind, s, b - Len(pat.behind)) THEN {}
    ELSE {e \in (b + minLen)..Len(s) :
             /\ \A k \in (b + 1)..e : pat.dotall \/ s[k] # "\n"
             /\ OccursAt(pat.ahead, s, e)}

\* The positions at or after pos where a match begins; at pos itself an
\* empty match is refused when the previous match was empty (the regex
\* engine's must_advance).
MatchStarts(pat, s, pos, mustAdvance) ==
    {b \in pos..Len(s) :
        MatchEnds(pat, s, b, IF b = pos /\ mustAdvance THEN 1 ELSE 0) # {}}

\* The spans <<b, e>> re.sub replaces, from left to right: the leftmost
\* match, the shortest at its start (the quantifier is lazy), then on from
\* its end.
RECURSIVE Scan(_, _, _, _)
Scan(pat, s, pos, mustAdvance) ==
    LET starts == MatchStarts(pat, s, pos, mustAdvance)
    IN  IF starts = {} THEN <<>>
        ELSE LET b == Min(starts)
                 e == Min(MatchEnds(pat, s, b, IF b = pos /\ mustAdvance THEN 1 ELSE 0))
             IN  <<<<b, e>>>> \o Scan(pat, s, e, e = b)

\* re.sub(pat, repl, s): every span of Scan replaced by what repl makes of its
\* text; repl is a function on the texts matched.
ReSub(pat, repl, s) ==
    LET spans == Scan(pat, s, 0, FALSE)
        n == Len(spans)
        out[k \in 0..n] ==
            IF k = 0 THEN <<>>
            ELSE out[k - 1]
                 \o Slice(s, IF k = 1 THEN 0 ELSE spans[k - 1][2], spans[k][1])
                 \o repl[Slice(s, spans[k][1], spans[k][2])]
    IN  out[n] \o Slice(s, IF n = 0 THEN 0 ELSE spans[n][2], Len(s))

\* The texts of the spans re.sub replaces.
Matches(pat, s) ==
    LET spans == Scan(pat, s, 0, FALSE)
    IN  {Slice(s, spans[k][1], spans[k][2]) : k \in 1..Len(spans)}

----------------------------------------------------------------------------
(* ModelParser *)

\* "schema='<customer>', alias='<stem>" : REQUIRED_CONFIGS but for its last
\* quote, which is a token of its own as every quote is.
RequiredHead(c, st) == "schema='" \o c \o "', alias='" \o st

REQUIRED_CONFIGS(c, st) == <<RequiredHead(c, st), "'">>

prefix_customer(c, m) == <<c \o "_">> \o m

append_required_configs(c, st, m) == m \o <<", ">> \o REQUIRED_CONFIGS(c, st)

modify_refs(s, c) ==
    LET one == ReSub(REF_SINGLE_QUOTE,
                     [m \in Matches(REF_SINGLE_QUOTE, s) |-> prefix_customer(c, m)], s)
    IN  ReSub(REF_DOUBLE_QUOTE,
              [m \in Matches(REF_DOUBLE_QUOTE, one) |-> prefix_customer(c, m)], one)

\* modify_config without its test for REQUIRED_CONFIGS: the configuration line
\* is always prepended.
modify_config_always_prepend(s, c, st) ==
    <<"{{ ", "config(">> \o REQUIRED_CONFIGS(c, st) \o <<")", " }}", "\n", "\n">>
    \o ReSub(CONFIG_SEARCH,
             [m \in Matches(CONFIG_SEARCH, s) |-> append_required_configs(c, st, m)], s)

modify_config(s, c, st) ==
    LET aug == ReSub(CONFIG_SEARCH,
                     [m \in Matches(CONFIG_SEARCH, s) |-> append_required_configs(c, st, m)], s)
    IN  IF ~Occurs(REQUIRED_CONFIGS(c, st), aug)
        THEN <<"{{ ", "config(">> \o REQUIRED_CONFIGS(c, st) \o <<")", " }}", "\n", "\n">> \o aug
        ELSE aug

\* The spans both reference patterns match in one call of _modify_refs.
RefMatches(s, c) ==
    LET one == ReSub(REF_SINGLE_QUOTE,
                     [m \in Matches(REF_SINGLE_QUOTE, s) |-> prefix_customer(c, m)], s)
    IN  {[quote |-> "'", span |-> m] : m \in Matches(REF_SINGLE_QUOTE, s)}
        \cup {[quote |-> "\"", span |-> m] : m \in Matches(REF_DOUBLE_QUOTE, one)}

----------------------------------------------------------------------------
(* The Source transformer as a state machine: ModelParser.file_contents    *)
(* applied to a text, and applied again to its own result.                 *)

CUSTOMERS == {"cust1"}
STEMS == {"orders"}

\* The tokens a source text is made of: the pieces the patterns look for,
\* a newline, a piece of plain text, and REQUIRED_CONFIGS itself.
Alphabet(c, st) ==
    {"ref(", "config(", "'", "\"", ")", "\n", "a", RequiredHead(c, st)}

SourceInit ==
    /\ customer \in CUSTOMERS
    /\ stem \in STEMS
    /\ text \in SeqsUpTo(Alphabet(customer, stem), MaxLen)
    /\ sql = <<>>
    /\ pc = "start"
    /\ runs = 0
    /\ cfgIn = <<>>
    /\ refsIn = <<>>
    /\ first = <<>>
    /\ matched = {}
    /\ yml = <<>>
    /\ data = <<>>
    /\ tenant_directory = "" /\ master = {} /\ tree = <<>> /\ ci = 0 /\ di = 0
    /\ directory = "" /\ todo = {} /\ log = {}

\* sql = self.file.read_text(); sql = self._modify_config(sql)
ModifyConfig ==
    /\ pc = "start"
    /\ sql' = modify_config(text, customer, stem)
    /\ cfgIn' = text
    /\ pc' = "config"
    /\ UNCHANGED <<text, customer, stem, runs, refsIn, first, matched, schemaVars, cloneVars>>

\* sql = self._modify_refs(sql); return sql
ModifyRefs ==
    /\ pc = "config"
    /\ sql' = modify_refs(sql, customer)
    /\ refsIn' = sql
    /\ matched' = RefMatches(sql, customer)
    /\ first' = IF runs = 0 THEN sql' ELSE first
    /\ runs' = runs + 1
    /\ pc' = "refs"
    /\ UNCHANGED <<text, customer, stem, cfgIn, schemaVars, cloneVars>>

\* The transformer is applied once more, to the text it returned.
Reapply ==
    /\ pc = "refs"
    /\ runs < MaxRuns
    /\ text' = sql
    /\ sql' = <<>>
    /\ pc' = "start"
    /\ UNCHANGED <<customer, stem, runs, cfgIn, refsIn, first, matched, schemaVars, cloneVars>>

SourceNext == ModifyConfig \/ ModifyRefs \/ Reapply

SourceSpec == SourceInit /\ [][SourceNext]_vars

\* The configuration pass alone, applied to every source text.
ConfigPassSpec == SourceInit /\ [][ModifyConfig]_vars

----------------------------------------------------------------------------
(* What the claims about the Source transformer speak of, stated on the    *)
(* text and not through the patterns.                                      *)

\* The places of the configuration-calls of s: a "config(" that a ")" follows.
ConfigCalls(s) ==
    {i \in 1..Len(s) : s[i] = "config(" /\ \E j \in (i + 1)..Len(s) : s[j] = ")"}

\* The position where the argument list of the call at i ends: before the
\* first ")" after it.
ArgsEnd(s, i) == Min({j \in (i + 1)..Len(s) : s[j] = ")"}) - 1

\* The argument list of the call at i.
Args(s, i) == Slice(s, i, ArgsEnd(s, i))

\* s with ", schema='<c>', alias='<st>'" appended to the argument list of its
\* first configuration-call, and nothing else changed.
AugmentFirst(s, c, st) ==
    LET e == ArgsEnd(s, Min(ConfigCalls(s)))
    IN  Slice(s, 0, e) \o <<", ">> \o REQUIRED_CONFIGS(c, st) \o Slice(s, e, Len(s))

\* How many times the keys schema and alias are declared in an argument list.
KeyCount(args, c, st) ==
    Cardinality({k \in 1..Len(args) : args[k] = RequiredHead(c, st)})

\* The line the configuration pass prepends, with the blank line after it.
ConfigLine(c, st) ==
    <<"{{ ", "config(">> \o REQUIRED_CONFIGS(c, st) \o <<")", " }}", "\n", "\n">>

\* A token that may stand inside a quoted literal.
LiteralToken(t, c, st) ==
    t \notin {"'", "\"", ")", "\n", "ref(", "config(", RequiredHead(c, st)}

\* The places of the reference-calls of s whose target is a quoted literal:
\* "ref(", a quote, literal tokens, the same quote, and a ")" closing the call.
RefTargets(s, c, st) ==
    {i \in 1..Len(s) :
        /\ s[i] = "ref("
        /\ i + 1 <= Len(s)
        /\ s[i + 1] \in {"'", "\""}
        /\ \E j \in (i + 2)..Len(s) :
              /\ s[j] = s[i + 1]
              /\ \A k \in (i + 2)..(j - 1) : LiteralToken(s[k], c, st)
              /\ \E k \in (j + 1)..Len(s) : s[k] = ")"}

\* s with the customer prefix put in front of every such literal, and nothing
\* else changed.
PrefixTargets(s, c, st) ==
    LET T == RefTargets(s, c, st)
        out[k \in 0..Len(s)] ==
            IF k = 0 THEN <<>>
            ELSE out[k - 1] \o <<s[k]>> \o (IF k - 1 \in T THEN <<c \o "_">> ELSE <<>>)
    IN  out[Len(s)]

----------------------------------------------------------------------------
(* Claims about the Source transformer *)

\* C1: applying the Source transformer twice in sequence yields the text one
\* application yields.
C1_Idempotent ==
    (pc = "refs" /\ runs = 2) => sql = first

\* C4: for a text that holds a configuration-call, after the configuration
\* pass the call's argument list is the original one followed by the
\* mandatory keys, schema and alias are declared at most once in it, and the
\* text outside the argument list is unchanged.
C4_AugmentWithoutDuplicates ==
    (pc = "config" /\ ConfigCalls(cfgIn) # {}) =>
        LET i == Min(ConfigCalls(cfgIn))
            e == ArgsEnd(cfgIn, i)
        IN  /\ Slice(sql, 0, i) = Slice(cfgIn, 0, i)
            /\ ConfigCalls(sql) # {}
            /\ Args(sql, i) = Args(cfgIn, i) \o <<", ">> \o REQUIRED_CONFIGS(customer, stem)
            /\ KeyCount(Args(sql, i), customer, stem) <= 1
            /\ Slice(sql, ArgsEnd(sql, i), Len(sql)) = Slice(cfgIn, e, Len(cfgIn))

\* C5 as stated: for a text that holds no configuration-call, the
\* configuration pass returns the configuration line, a blank line, and the
\* text unchanged.
C5_InjectWhenAbsent ==
    (pc = "config" /\ ConfigCalls(cfgIn) = {}) =>
        sql = ConfigLine(customer, stem) \o cfgIn

\* C5 as amended: for a text that holds no configuration-call, the
\* configuration pass returns the configuration line, a blank line, and the
\* text unchanged, unless the text holds schema='<customer>', alias='<stem>'
\* somewhere, and then it returns the text unchanged.
C5_InjectWhenAbsentUnlessRequiredOccurs ==
    (pc = "config" /\ ConfigCalls(cfgIn) = {}) =>
        sql = IF Occurs(REQUIRED_CONFIGS(customer, stem), cfgIn)
              THEN cfgIn
              ELSE ConfigLine(customer, stem) \o cfgIn

\* A text with a reference-call and no configuration-call has had the
\* configuration line put before it.
C5_Witness ==
    /\ pc = "config"
    /\ ConfigCalls(cfgIn) = {}
    /\ Occurs(<<"ref(">>, cfgIn)
    /\ ~Occurs(REQUIRED_CONFIGS(customer, stem), cfgIn)
    /\ sql = ConfigLine(customer, stem) \o cfgIn

\* C6: the reference pass puts the customer prefix in front of the literal of
\* every reference-call whose target is a quoted literal, once, and changes
\* nothing else.
C6_EveryTargetPrefixedOnce ==
    pc = "refs" => sql = PrefixTargets(refsIn, customer, stem)

\* C9: every span the reference patterns match is the inside of one quoted
\* literal: it holds no quote of its own kind, no closing parenthesis and no
\* opening of another call.
C9_MatchInsideOneCall ==
    pc = "refs" =>
        \A m \in matched : \A k \in 1..Len(m.span) :
            /\ m.span[k] \notin {m.quote, ")", "ref(", "config("}
            /\ ~(m.quote = "'" /\ m.span[k] = RequiredHead(customer, stem))

\* C10: for a text that holds configuration-calls, the configuration pass
\* appends the mandatory keys to the argument list of the first one and
\* leaves every later one as it was.
C10_OnlyFirstCallAugmented ==
    (pc = "config" /\ ConfigCalls(cfgIn) # {}) =>
        sql = AugmentFirst(cfgIn, customer, stem)

----------------------------------------------------------------------------
(* SchemaParser: the Structured transformer.  A document is a function     *)
(* from its keys to their values; the value of models, seeds, snapshots    *)
(* and sources is a list of items, and an item is a function from its      *)
(* fields to their values.                                                 *)

MODEL_KEYS == {"models", "seeds", "snapshots"}

\* modify_yml_for_models renaming the items of models alone.
modify_yml_for_models_only(d, c) ==
    [k \in DOMAIN d |->
        IF k = "models"
        THEN [i \in 1..Len(d[k]) |-> [d[k][i] EXCEPT !["name"] = c \o "_" \o @]]
        ELSE d[k]]

\* for key in ['models', 'seeds', 'snapshots']: for item in data.get(key, []):
\* item['name'] = f"{self.customer}_{item['name']}"
modify_yml_for_models(d, c) ==
    [k \in DOMAIN d |->
        IF k \in MODEL_KEYS
        THEN [i \in 1..Len(d[k]) |-> [d[k][i] EXCEPT !["name"] = c \o "_" \o @]]
        ELSE d[k]]

\* for source in data['sources']: source['schema'] = self.customer
modify_yml_for_sources(d, c) ==
    [d EXCEPT !["sources"] =
        [i \in 1..Len(@) |->
            [f \in DOMAIN @[i] \cup {"schema"} |-> IF f = "schema" THEN c ELSE @[i][f]]]]

\* The document SchemaParser.file_contents returns for the loaded document d.
schema_file_contents(d, c) ==
    LET named == IF \E k \in MODEL_KEYS : k \in DOMAIN d
                 THEN modify_yml_for_models(d, c)
                 ELSE d
    IN  IF "sources" \in DOMAIN named
        THEN modify_yml_for_sources(named, c)
        ELSE named

\* The items of the documents: one with a description, one with a schema.
Items ==
    {[name |-> "a", description |-> "d"], [name |-> "b", schema |-> "raw"]}

LIST_KEYS == MODEL_KEYS \cup {"sources"}

\* The documents: version: 2, and any of the four lists.
Documents ==
    {[k \in K \cup {"version"} |-> IF k = "version" THEN 2 ELSE L[k]] :
        K \in SUBSET LIST_KEYS, L \in [LIST_KEYS -> SeqsUpTo(Items, MaxItems)]}

SchemaInit ==
    /\ customer \in {"cust1", "cust4"}
    /\ yml \in Documents
    /\ data = <<>>
    /\ pc = "start"
    /\ text = <<>> /\ sql = <<>> /\ stem = "" /\ runs = 0
    /\ cfgIn = <<>> /\ refsIn = <<>> /\ first = <<>> /\ matched = {}
    /\ tenant_directory = "" /\ master = {} /\ tree = <<>> /\ ci = 0 /\ di = 0
    /\ directory = "" /\ todo = {} /\ log = {}

\* with self.file.open() as fp: data = yaml.safe_load(fp)
SafeLoad ==
    /\ pc = "start"
    /\ data' = yml
    /\ pc' = "loaded"
    /\ UNCHANGED <<customer, yml, sourceVars, cloneVars>>

\* if any(...): data = self._modify_yml_for_models(data)
\* if 'sources' in data: data = self._modify_yml_for_sources(data); return data
ModifyYml ==
    /\ pc = "loaded"
    /\ data' = schema_file_contents(data, customer)
    /\ pc' = "dumped"
    /\ UNCHANGED <<customer, yml, sourceVars, cloneVars>>

SchemaNext == SafeLoad \/ ModifyYml

SchemaSpec == SchemaInit /\ [][SchemaNext]_vars

\* C7: after the Structured transform (a) every entry of sources has the
\* customer as its schema and its name unchanged; (b) every item of models,
\* seeds and snapshots has the customer prefix before its name, once; (c)
\* every other key and field of the document is unchanged.
C7_StructuredRewriteComplete ==
    pc = "dumped" =>
        /\ DOMAIN data = DOMAIN yml
        /\ \A k \in DOMAIN yml :
              IF k \in LIST_KEYS
              THEN /\ Len(data[k]) = Len(yml[k])
                   /\ \A i \in 1..Len(yml[k]) :
                         LET old == yml[k][i]
                             new == data[k][i]
                         IN  IF k = "sources"
                             THEN /\ DOMAIN new = DOMAIN old \cup {"schema"}
                                  /\ new["schema"] = customer
                                  /\ new["name"] = old["name"]
                                  /\ \A f \in DOMAIN old \ {"schema"} : new[f] = old[f]
                             ELSE /\ DOMAIN new = DOMAIN old
                                  /\ new["name"] = customer \o "_" \o old["name"]
                                  /\ \A f \in DOMAIN old \ {"name"} : new[f] = old[f]
              ELSE data[k] = yml[k]

\* A document with models, seeds and sources, each with items, was transformed.
C7_Witness ==
    /\ pc = "dumped"
    /\ {"models", "seeds", "sources"} \subseteq DOMAIN yml
    /\ Len(yml["models"]) > 0
    /\ Len(yml["seeds"]) > 0
    /\ Len(yml["sources"]) > 1
    /\ data # yml

----------------------------------------------------------------------------
(* The script: __main__, ParseDirectory and the parsers' destinations.     *)
(* A file of the master project is a record: the directory (category) it   *)
(* lies under, the parts of its path below that directory, its stem, its   *)
(* suffix and its contents.  A path is the sequence of its parts.          *)

CLUSTER_TENANT_DICT ==
    [tenants_env1 |-> <<"cust1", "cust2", "cust3">>,
     tenants_env2 |-> <<"cust4">>,
     tenants_env3 |-> <<"cust5", "cust6">>]

MASTER_PROJECT_NAME == "master_project"

DIRECTORIES == <<"models", "macros">>

\* self.file.name
Name(f) == f.stem \o f.suffix

\* The path of a file of the master project.
MasterPath(td, f) ==
    <<td, "dbt_packages", MASTER_PROJECT_NAME, f.directory>> \o f.parts \o <<Name(f)>>

\* classify without the notice for a suffix no parser handles.
classify_without_notice(dir, suffix) ==
    IF suffix = ".sql"
    THEN IF dir \in {"models", "seeds", "snapshots"}
         THEN [parser |-> "ModelParser", notice |-> FALSE]
         ELSE IF dir = "macros"
              THEN [parser |-> "MacroParser", notice |-> FALSE]
              ELSE [parser |-> "none", notice |-> FALSE]
    ELSE IF suffix = ".yml" \/ suffix = ".yaml"
         THEN [parser |-> "SchemaParser", notice |-> FALSE]
         ELSE IF suffix = ".md"
              THEN [parser |-> "DocParser", notice |-> FALSE]
              ELSE [parser |-> "none", notice |-> FALSE]

\* The parser ParseDirectory.run picks for a file, and whether it prints the
\* notice that the file is skipped.
classify(dir, suffix) ==
    IF suffix = ".sql"
    THEN IF dir \in {"models", "seeds", "snapshots"}
         THEN [parser |-> "ModelParser", notice |-> FALSE]
         ELSE IF dir = "macros"
              THEN [parser |-> "MacroParser", notice |-> FALSE]
              ELSE [parser |-> "none", notice |-> FALSE]
    ELSE IF suffix = ".yml" \/ suffix = ".yaml"
         THEN [parser |-> "SchemaParser", notice |-> FALSE]
         ELSE IF suffix = ".md"
              THEN [parser |-> "DocParser", notice |-> FALSE]
              ELSE [parser |-> "none", notice |-> TRUE]

\* file_name: FileParser prefixes the customer; SchemaParser and MacroParser
\* (and DocParser, which inherits it) keep the name.
file_name(parser, c, f) ==
    IF parser = "ModelParser" THEN c \o "_" \o Name(f) ELSE Name(f)

\* file_path with FileParser leaving the customer out as MacroParser does.
file_path_without_customer(parser, td, c, f) ==
    IF parser = "DocParser" THEN <<td, f.directory, "shared">>
    ELSE <<td, f.directory>> \o f.parts

\* file_path: FileParser nests under the customer; MacroParser leaves the
\* customer out; DocParser flattens into shared.
file_path(parser, td, c, f) ==
    IF parser = "DocParser" THEN <<td, f.directory, "shared">>
    ELSE IF parser = "MacroParser" THEN <<td, f.directory>> \o f.parts
    ELSE <<td, f.directory, c>> \o f.parts

file_path_and_file(parser, td, c, f) ==
    file_path(parser, td, c, f) \o <<file_name(parser, c, f)>>

\* file_contents: ModelParser rewrites the text, SchemaParser the document,
\* the others return what they read.
file_contents(parser, c, f) ==
    IF parser = "ModelParser"
    THEN modify_refs(modify_config(f.content, c, f.stem), c)
    ELSE IF parser = "SchemaParser"
         THEN schema_file_contents(f.content, c)
         ELSE f.content

\* write_file_contents: the tree with the contents written at the path.
Write(t, path, contents) ==
    [q \in DOMAIN t \cup {path} |-> IF q = path THEN contents ELSE t[q]]

SUFFIXES == {".sql", ".yml", ".yaml", ".md", ".txt"}

\* The contents a file of a suffix may have.
Contents(suffix) ==
    IF suffix = ".sql" THEN {<<"ref(", "'", "a", "'", ")">>}
    ELSE IF suffix \in {".yml", ".yaml"}
         THEN {[version |-> 2, models |-> <<[name |-> "a", description |-> "d"]>>]}
         ELSE IF suffix = ".md" THEN {<<"a">>, <<"b">>}
              ELSE {<<"a">>}

\* The files a master project may hold: x.<suffix>, in a directory of
\* DIRECTORIES or in its subdirectory staging.
Files ==
    UNION {{[directory |-> DIRECTORIES[d], parts |-> ps, stem |-> "x",
             suffix |-> sfx, content |-> ct] : ct \in Contents(sfx)} :
           d \in DOMAIN DIRECTORIES, ps \in {<<>>, <<"staging">>}, sfx \in SUFFIXES}

SamePath(f, g) ==
    /\ f.directory = g.directory
    /\ f.parts = g.parts
    /\ Name(f) = Name(g)

\* The master projects of at most n files, no two at one path.
RECURSIVE Masters(_)
Masters(n) ==
    IF n = 0 THEN {{}}
    ELSE LET prev == Masters(n - 1)
         IN  prev \cup
             {x[1] \cup {x[2]} :
                x \in {y \in prev \X Files : \A g \in y[1] : ~SamePath(g, y[2])}}

CloneInit ==
    /\ tenant_directory \in DOMAIN CLUSTER_TENANT_DICT
    /\ master \in Masters(MaxFiles)
    /\ tree = <<>>
    /\ ci = 1
    /\ di = 1
    /\ customer = ""
    /\ directory = ""
    /\ todo = {}
    /\ log = {}
    /\ pc = "main"
    /\ text = <<>> /\ sql = <<>> /\ stem = "" /\ runs = 0
    /\ cfgIn = <<>> /\ refsIn = <<>> /\ first = <<>> /\ matched = {}
    /\ yml = <<>> /\ data = <<>>

\* ParseDirectory(tenant_directory, directory, customer): self.files are the
\* files of the master project under the directory.
ParseDirectoryInit ==
    /\ pc = "main"
    /\ customer' = CLUSTER_TENANT_DICT[tenant_directory][ci]
    /\ directory' = DIRECTORIES[di]
    /\ todo' = {f \in master : f.directory = DIRECTORIES[di]}
    /\ pc' = "run"
    /\ UNCHANGED <<tenant_directory, master, tree, ci, di, log,
                   sourceVars, schemaVars>>

\* ParseDirectory.run, one turn of its loop: the file is classified and, when
\* a parser is picked, the parser's run writes its contents at its
\* destination; otherwise nothing is written.  rglob yields the files in an
\* order of its own, so any file not yet visited may be the next.
ParseDirectoryRun(f) ==
    /\ pc = "run"
    /\ f \in todo
    /\ LET cl == classify(directory, f.suffix)
           dest == file_path_and_file(cl.parser, tenant_directory, customer, f)
       IN  IF cl.parser # "none"
           THEN /\ tree' = Write(tree, dest, file_contents(cl.parser, customer, f))
                /\ log' = log \cup {[customer |-> customer, file |-> f,
                                     parser |-> cl.parser, wrote |-> {dest},
                                     notice |-> cl.notice]}
           ELSE /\ tree' = tree
                /\ log' = log \cup {[customer |-> customer, file |-> f,
                                     parser |-> cl.parser, wrote |-> {},
                                     notice |-> cl.notice]}
    /\ todo' = todo \ {f}
    /\ UNCHANGED <<pc, customer, tenant_directory, master, ci, di, directory,
                   sourceVars, schemaVars>>

\* The loop of run is over: __main__ goes on to the next directory, then to
\* the next customer, then ends.
NextDirectory ==
    /\ pc = "run"
    /\ todo = {}
    /\ IF di < Len(DIRECTORIES)
       THEN /\ di' = di + 1
            /\ ci' = ci
            /\ pc' = "main"
       ELSE /\ di' = 1
            /\ ci' = ci + 1
            /\ pc' = IF ci < Len(CLUSTER_TENANT_DICT[tenant_directory])
                     THEN "main" ELSE "exit"
    /\ UNCHANGED <<customer, tenant_directory, master, tree, directory, todo, log,
                   sourceVars, schemaVars>>

\* The script is started again, after it ended or after it was aborted in
\* the middle of a directory: the tree it wrote so far is still there.
Rerun ==
    /\ pc \in {"run", "exit"}
    /\ ci' = 1
    /\ di' = 1
    /\ todo' = {}
    /\ pc' = "main"
    /\ UNCHANGED <<customer, tenant_directory, master, tree, directory, log,
                   sourceVars, schemaVars>>

CloneNext ==
    \/ ParseDirectoryInit
    \/ \E f \in master : ParseDirectoryRun(f)
    \/ NextDirectory
    \/ Rerun

CloneSpec == CloneInit /\ [][CloneNext]_vars

----------------------------------------------------------------------------
(* Claims about the script *)

\* C2 as stated: no two distinct materializations (customer, file) compute
\* the same destination path.
C2_DestinationsDisjoint ==
    \A r1 \in log : \A r2 \in log :
        r1 # r2 => r1.wrote \cap r2.wrote = {}

\* C2 as amended: two distinct materializations compute the same destination
\* path only when both are of shared files, the same macro for two customers
\* or documentation files of one directory with one name; the destination of
\* a tenant-scoped file (a model, a schema file) is that of no other
\* materialization.
C2_OnlySharedFilesMeet ==
    \A r1 \in log : \A r2 \in log :
        (r1 # r2 /\ r1.wrote \cap r2.wrote # {}) =>
            \/ /\ r1.parser = "MacroParser"
               /\ r2.parser = "MacroParser"
               /\ r1.file = r2.file
            \/ /\ r1.parser = "DocParser"
               /\ r2.parser = "DocParser"
               /\ r1.file.directory = r2.file.directory
               /\ Name(r1.file) = Name(r2.file)

\* One model and one schema file were each written for two customers, at
\* four destinations.
C2_Witness ==
    \E r1 \in log : \E r2 \in log : \E r3 \in log : \E r4 \in log :
        /\ r1.parser = "ModelParser" /\ r2.parser = "ModelParser"
        /\ r3.parser = "SchemaParser" /\ r4.parser = "SchemaParser"
        /\ r1.file = r2.file /\ r3.file = r4.file
        /\ r1.customer # r2.customer /\ r3.customer # r4.customer
        /\ Cardinality(r1.wrote \cup r2.wrote \cup r3.wrote \cup r4.wrote) = 4
        /\ (r1.wrote \cup r2.wrote \cup r3.wrote \cup r4.wrote) \subseteq DOMAIN tree

\* C3: nothing is written under dbt_packages, and the tree a complete run
\* leaves is the same whatever the order of the materializations and however
\* often each ran: every destination holds what each materialization of it
\* writes there.
C3_OrderFreeConvergence ==
    /\ \A p \in DOMAIN tree : p[2] # "dbt_packages"
    /\ \A f \in master : MasterPath(tenant_directory, f) \notin DOMAIN tree
    /\ pc = "exit" =>
          \A r \in log : \A p \in r.wrote :
              tree[p] = file_contents(r.parser, r.customer, r.file)

\* C8: of every file ParseDirectory.run has visited, either one parser was
\* picked and one file written and no notice printed, or no parser was
\* picked, nothing written and the notice printed.
C8_NoSilentDrop ==
    \A r \in log :
        \/ /\ r.parser \in {"ModelParser", "MacroParser", "SchemaParser", "DocParser"}
           /\ Cardinality(r.wrote) = 1
           /\ r.wrote \subseteq DOMAIN tree
           /\ ~r.notice
        \/ /\ r.parser = "none"
           /\ r.wrote = {}
           /\ r.notice

\* A .txt file was skipped with its notice and another file was written.
C8_Witness ==
    /\ \E r \in log : r.file.suffix = ".txt" /\ r.parser = "none" /\ r.notice /\ r.wrote = {}
    /\ \E r \in log : r.parser # "none" /\ r.wrote # {}

====
